---------------------------- MODULE Spec2Model ----------------------------
(***************************************************************************)
(* Report scheduling engine of enset-health.                               *)
(*                                                                         *)
(*   Schedule Policy   health/models.py   Profile.compute_next_report_at   *)
(*   Configuration     health/forms.py    ReportScheduleForm.clean         *)
(*   Delivery Runner   health/management/commands/send_scheduled_reports.py*)
(*                                                                         *)
(* Time.  An instant is an integer: ordinal(date) * SlotsPerDay + slot,    *)
(* where ordinal is Python's proleptic Gregorian date.toordinal() and      *)
(* slot is the time of day cut into SlotsPerDay equal parts.  The          *)
(* deployment's timezone is taken to have a fixed UTC offset, so           *)
(* timezone.make_aware keeps the order of local date-times.                *)
(***************************************************************************)
EXTENDS Integers, Sequences, FiniteSets, TLC

\* ------------------------------------------------------------------ bounds
\* Time-of-day granularity: slots 0 .. SlotsPerDay-1 of one day.
SlotsPerDay == 3
\* Days of the window from which the Policy's reference instants are drawn.
PolicyDays == 122
\* Slots of clock time the runner's world is followed for.
RunSlots == 5
\* How many times the Policy specification re-evaluates at the due instant.
MaxFires == 1
\* Changes made by users (configuration updates, account email changes)
\* followed in one behaviour.
MaxUpdates == 2
\* Lost state writes (a store write that raises, a process stopped before it)
\* followed in one behaviour.
MaxFaults == 1
MaxEmailChanges == 1
\* Submissions of the form followed when configuration updates are taken alone.
MaxSubmissions == 1
\* The values of --interval tried: -BelowZero .. MaxInterval seconds.
BelowZero == 3
MaxInterval == 330

\* ----------------------------------------------------------------- values
\* Python's None for the nullable integer, time and datetime fields.
None == -1
\* A null or empty CharField / EmailField (both are falsy in the code).
NoStr == ""

Slots == 0 .. (SlotsPerDay - 1)

\* report_time's model default, dt_time(hour=8, minute=0): the second slot.
DefaultReportTime == 1
\* report_range_days' model default.
DefaultRangeDays == 30

DayNames == <<"monday", "tuesday", "wednesday", "thursday", "friday", "saturday", "sunday">>

\* --------------------------------------------------------------- calendar
\* calendar.isleap
IsLeap(y) == (y % 4 = 0) /\ ((y % 100 # 0) \/ (y % 400 = 0))

\* calendar.monthrange(year, month)[1]
DaysInMonth(y, m) ==
    IF m = 2 THEN (IF IsLeap(y) THEN 29 ELSE 28)
    ELSE IF m \in {4, 6, 9, 11} THEN 30 ELSE 31

\* datetime._days_before_year
DaysBeforeYear(y) ==
    LET p == y - 1 IN p * 365 + (p \div 4) - (p \div 100) + (p \div 400)

\* datetime._days_before_month
RECURSIVE DaysBeforeMonth(_, _)
DaysBeforeMonth(y, m) ==
    IF m = 1 THEN 0 ELSE DaysBeforeMonth(y, m - 1) + DaysInMonth(y, m - 1)

\* date.toordinal()
ToOrdinal(d) == DaysBeforeYear(d.year) + DaysBeforeMonth(d.year, d.month) + d.day

\* datetime._ord2ymd
ord2ymd(ord) ==
    LET n0   == ord - 1
        n400 == n0 \div 146097
        r400 == n0 % 146097
        n100 == r400 \div 36524
        r100 == r400 % 36524
        n4   == r100 \div 1461
        r4   == r100 % 1461
        n1   == r4 \div 365
        n    == r4 % 365
        y    == n400 * 400 + 1 + n100 * 100 + n4 * 4 + n1
    IN  IF n1 = 4 \/ n100 = 4
        THEN [year |-> y - 1, month |-> 12, day |-> 31]
        ELSE LET m0 == (n + 50) \div 32
                 p0 == DaysBeforeMonth(y, m0)
                 m  == IF p0 > n THEN m0 - 1 ELSE m0
                 p  == IF p0 > n THEN p0 - DaysInMonth(y, m0 - 1) ELSE p0
             IN  [year |-> y, month |-> m, day |-> n - p + 1]

\* The dates the model's instants fall on, each computed once: from the
\* first day of the Policy's window to past the last instant the Policy can
\* return for it.
FirstOrdinal == ToOrdinal([year |-> 2023, month |-> 12, day |-> 1])
Dates == [o \in FirstOrdinal .. (FirstOrdinal + PolicyDays + 62 * (MaxFires + 1))
            |-> ord2ymd(o)]

\* date.fromordinal(n)
FromOrdinal(ord) == Dates[ord]

\* date.weekday(): Monday is 0
Weekday(d) == (ToOrdinal(d) + 6) % 7

\* today + timedelta(days=k)
AddDays(d, k) == FromOrdinal(ToOrdinal(d) + k)

\* now.date()
DateOf(t) == FromOrdinal(t \div SlotsPerDay)

\* now.time(), as a slot
SlotOf(t) == t % SlotsPerDay

\* datetime.combine(date, time), made aware in a fixed-offset timezone
MakeDt(d, slot) == ToOrdinal(d) * SlotsPerDay + slot


\* ------------------------------------------------------- Schedule Policy
\* weekday_index.get(self.report_day_of_week, today.weekday())
weekday_index(name, default) ==
    IF \E i \in 1..7 : DayNames[i] = name
    THEN (CHOOSE i \in 1..7 : DayNames[i] = name) - 1
    ELSE default

Min(a, b) == IF a <= b THEN a ELSE b

\* _month_candidate(year, month) of compute_next_report_at
month_candidate(self, day_of_month, year, month) ==
    LET last_day == DaysInMonth(year, month)
        safe_day == Min(day_of_month, last_day)
    IN  MakeDt([year |-> year, month |-> month, day |-> safe_day], self.report_time)

\* daily_candidate that always takes the day after.
daily_candidate_tomorrow(self, now) ==
    MakeDt(AddDays(DateOf(now), 1), self.report_time)

\* daily_candidate with "candidate < now" for "candidate <= now": a call made
\* at the due instant gets that same instant back.
daily_candidate_inclusive(self, now) ==
    LET today     == DateOf(now)
        candidate == MakeDt(today, self.report_time)
    IN  IF candidate < now
        THEN MakeDt(AddDays(today, 1), self.report_time)
        ELSE candidate

\* The daily branch of compute_next_report_at.
daily_candidate(self, now) ==
    LET today     == DateOf(now)
        candidate == MakeDt(today, self.report_time)
    IN  IF candidate <= now
        THEN MakeDt(AddDays(today, 1), self.report_time)
        ELSE candidate

\* weekly_candidate with "candidate < now" for "candidate <= now".
weekly_candidate_inclusive(self, now) ==
    LET today          == DateOf(now)
        target_idx     == weekday_index(self.report_day_of_week, Weekday(today))
        days_ahead     == (target_idx - Weekday(today)) % 7
        candidate_date == AddDays(today, days_ahead)
        candidate      == MakeDt(candidate_date, self.report_time)
    IN  IF candidate < now
        THEN MakeDt(AddDays(candidate_date, 7), self.report_time)
        ELSE candidate

\* weekly_candidate without the step to the week after.
weekly_candidate_same_week(self, now) ==
    LET today          == DateOf(now)
        target_idx     == weekday_index(self.report_day_of_week, Weekday(today))
        days_ahead     == (target_idx - Weekday(today)) % 7
    IN  MakeDt(AddDays(today, days_ahead), self.report_time)

\* weekly_candidate that goes a week ahead whenever today is the day asked
\* for ("days_ahead or 7"), also when the time of day is still to come.
weekly_candidate_skips_today(self, now) ==
    LET today          == DateOf(now)
        target_idx     == weekday_index(self.report_day_of_week, Weekday(today))
        days_ahead     == (target_idx - Weekday(today)) % 7
        candidate_date == AddDays(today, IF days_ahead = 0 THEN 7 ELSE days_ahead)
    IN  MakeDt(candidate_date, self.report_time)

\* The weekly branch of compute_next_report_at.
weekly_candidate(self, now) ==
    LET today          == DateOf(now)
        target_idx     == weekday_index(self.report_day_of_week, Weekday(today))
        days_ahead     == (target_idx - Weekday(today)) % 7
        candidate_date == AddDays(today, days_ahead)
        candidate      == MakeDt(candidate_date, self.report_time)
    IN  IF candidate <= now
        THEN MakeDt(AddDays(candidate_date, 7), self.report_time)
        ELSE candidate

\* monthly_candidate without the step to the month after.
monthly_candidate_same_month(self, now) ==
    LET today        == DateOf(now)
        day_of_month == IF self.report_day_of_month = None \/ self.report_day_of_month = 0
                        THEN today.day
                        ELSE self.report_day_of_month
    IN  month_candidate(self, day_of_month, today.year, today.month)

\* monthly_candidate with "candidate < now" for "candidate <= now".
monthly_candidate_inclusive(self, now) ==
    LET today        == DateOf(now)
        day_of_month == IF self.report_day_of_month = None \/ self.report_day_of_month = 0
                        THEN today.day
                        ELSE self.report_day_of_month
        candidate    == month_candidate(self, day_of_month, today.year, today.month)
        year         == today.year + (IF today.month = 12 THEN 1 ELSE 0)
        month        == IF today.month = 12 THEN 1 ELSE today.month + 1
    IN  IF candidate < now
        THEN month_candidate(self, day_of_month, year, month)
        ELSE candidate

\* The else branch of compute_next_report_at (commented "monthly" in the code).
monthly_candidate(self, now) ==
    LET today        == DateOf(now)
        day_of_month == IF self.report_day_of_month = None \/ self.report_day_of_month = 0
                        THEN today.day
                        ELSE self.report_day_of_month
        candidate    == month_candidate(self, day_of_month, today.year, today.month)
        year         == today.year + (IF today.month = 12 THEN 1 ELSE 0)
        month        == IF today.month = 12 THEN 1 ELSE today.month + 1
    IN  IF candidate <= now
        THEN month_candidate(self, day_of_month, year, month)
        ELSE candidate

\* next_candidate with the daily rule for a frequency that is neither daily
\* nor weekly nor monthly.
next_candidate_daily_fallback(self, now) ==
    IF ~self.report_schedule_enabled \/ self.report_time = None
    THEN None
    ELSE IF self.report_frequency = "weekly" THEN weekly_candidate(self, now)
    ELSE IF self.report_frequency = "monthly" THEN monthly_candidate(self, now)
    ELSE daily_candidate(self, now)

\* next_candidate for which a report_time of midnight counts as no time (a
\* time of 00:00 taken as falsy by "not self.report_time").
next_candidate_midnight_falsy(self, now) ==
    IF ~self.report_schedule_enabled \/ self.report_time = None \/ self.report_time = 0
    THEN None
    ELSE IF self.report_frequency = "daily" THEN daily_candidate(self, now)
    ELSE IF self.report_frequency = "weekly" THEN weekly_candidate(self, now)
    ELSE monthly_candidate(self, now)

\* The value compute_next_report_at returns and stores in self.next_report_at.
next_candidate(self, now) ==
    IF ~self.report_schedule_enabled \/ self.report_time = None
    THEN None
    ELSE IF self.report_frequency = "daily" THEN daily_candidate(self, now)
    ELSE IF self.report_frequency = "weekly" THEN weekly_candidate(self, now)
    ELSE monthly_candidate(self, now)

\* compute_next_report_at that also stamps the instance with the instant of
\* the evaluation.
compute_next_report_at_stamps(self, now) ==
    LET candidate == next_candidate(self, now)
    IN  [self |-> [self EXCEPT !.next_report_at = candidate,
                               !.last_report_sent_at = now],
         ret  |-> candidate]

\* Profile.compute_next_report_at(now): the instance after the call and the
\* returned value.
compute_next_report_at(self, now) ==
    LET candidate == next_candidate(self, now)
    IN  [self |-> [self EXCEPT !.next_report_at = candidate], ret |-> candidate]

\* ---------------------------------------------------------------- state
Users == {1, 2}

\* The address of a user's account, and an explicit report recipient.
AccountAddr(u) == IF u = 1 THEN "u1@example.org" ELSE "u2@example.org"
RecipientAddr == "reports@example.org"

\* RegistrationForm's email is optional: user 1 registered with an address,
\* user 2 without one.
RegisteredEmail(u) == IF u = 1 THEN AccountAddr(u) ELSE NoStr

\* Profile.objects.create(user=instance): a row with the model's defaults.
DefaultProfile(u) ==
    [ user                    |-> u,
      report_schedule_enabled |-> FALSE,
      report_frequency        |-> "daily",
      report_time             |-> DefaultReportTime,
      report_day_of_week      |-> NoStr,
      report_day_of_month     |-> None,
      report_recipient_email  |-> NoStr,
      report_range_days       |-> DefaultRangeDays,
      next_report_at          |-> None,
      last_report_sent_at     |-> None ]

VARIABLES
    clock,       \* timezone.localtime(): the current instant
    email,       \* email[u]: User.email of user u
    store,       \* store[u]: the persisted Profile row of user u
    pc,          \* the command process: "idle" (not running), "pass", "sleep"
    dry_run,     \* options['dry_run'] of the running command
    loop,        \* options['loop'] of the running command
    now,         \* the now of the current pass of _run_once
    profiles,    \* the rows the pass loaded (with their user), in iteration order
    idx,         \* how many of profiles the for loop has gone through
    sent,        \* _run_once's sent counter
    skipped,     \* _run_once's skipped counter
    results,     \* history: what the loop body did for each profile gone through
    last,        \* history: the branch the last iteration took
    prev,        \* history: the pass before this one, when it had the same now
    touched,     \* history: users whose row or account changed during the pass
    dfor,        \* history: per user, deliveries made for one value of next_report_at
    faults,      \* lost state writes injected so far
    upd,         \* history: the configuration update just made, NoUpdate otherwise
    nupd,        \* changes made by users so far
    inst,        \* Policy specification: the Profile instance the method is called on
    arg_now,     \* Policy specification: the now passed to the call
    ret,         \* Policy specification: the value the last call returned
    called,      \* Policy specification: whether the call has been made for arg_now
    fires,       \* Policy specification: re-evaluations made at the due instant
    interval_opt,\* the command line's --interval: whether given, and its value
    interval     \* handle's interval, None before handle has computed it

world  == <<clock, email, store>>
locals == <<now, profiles, idx, sent, skipped>>
runner == <<pc, dry_run, loop, locals>>
hist   == <<results, last, prev, touched, dfor, faults, nupd>>
policy == <<inst, arg_now, ret, called, fires>>
timing == <<interval_opt, interval>>
aside  == <<policy, timing>>
vars   == <<world, runner, hist, upd, policy, timing>>

\* First instant of the window: 2023-12-01, slot 0.
WindowStart == MakeDt([year |-> 2023, month |-> 12, day |-> 1], 0)

\* ------------------------------------------------ Policy specification
\* Inputs of the pure-function check: Profile instances of every frequency,
\* valid and invalid day selectors, with and without a time of day.
PolicyDaySelectors ==
    {<<f, w, m>> : f \in {"daily"}, w \in {NoStr, "monday"}, m \in {None, 15}}
    \cup {<<f, w, m>> : f \in {"weekly"},
                        w \in {NoStr} \cup {DayNames[i] : i \in 1..7},
                        m \in {None}}
    \cup {<<f, w, m>> : f \in {"monthly", "yearly", NoStr},
                        w \in {NoStr},
                        m \in {None} \cup (0..31)}
    \cup {<<f, w, m>> : f \in {"yearly"}, w \in {"friday"}, m \in {None, 15}}

PolicyProfiles ==
    { [DefaultProfile(1) EXCEPT
          !.report_schedule_enabled = e,
          !.report_frequency        = s[1],
          !.report_day_of_week      = s[2],
          !.report_day_of_month     = s[3],
          !.report_time             = t ] :
      e \in BOOLEAN, s \in PolicyDaySelectors, t \in Slots \cup {None} }

PolicyNows == WindowStart .. (WindowStart + PolicyDays * SlotsPerDay - 1)

NoPass == [now |-> None, sent |-> {}, delivered |-> {}]
NoUpdate == [user |-> 0, ok |-> FALSE, enabled |-> FALSE, errors |-> {}, data |-> <<>>]
NoDeliveries == [value |-> None, n |-> 0, lost |-> 0]

\* First instant of the runner's world: 2024-02-28 (a Wednesday), slot 0.
RunStart == MakeDt([year |-> 2024, month |-> 2, day |-> 28], 0)

\* No command is running and nothing has happened yet.
RunnerInit ==
    /\ pc = "idle"
    /\ dry_run = FALSE
    /\ loop = FALSE
    /\ now = None
    /\ profiles = <<>>
    /\ idx = 0
    /\ sent = 0
    /\ skipped = 0
    /\ results = <<>>
    /\ last = NoStr
    /\ prev = NoPass
    /\ touched = {}
    /\ dfor = [u \in Users |-> NoDeliveries]
    /\ faults = 0
    /\ upd = NoUpdate
    /\ nupd = 0

\* Accounts exist, each with the Profile row create_user_profile made.
WorldInit ==
    /\ clock = RunStart
    /\ email = [u \in Users |-> RegisteredEmail(u)]
    /\ store = [u \in Users |-> DefaultProfile(u)]
    /\ RunnerInit

\* --interval is not given and handle has not run.
NoInterval == [given |-> FALSE, value |-> 0]
TimingIdle ==
    /\ interval_opt = NoInterval
    /\ interval = None

PolicyIdle ==
    /\ inst = DefaultProfile(1)
    /\ arg_now = None
    /\ ret = None
    /\ called = FALSE
    /\ fires = 0

PolicyInit ==
    /\ WorldInit
    /\ inst \in PolicyProfiles
    /\ arg_now \in PolicyNows
    /\ ret = None
    /\ called = FALSE
    /\ fires = 0
    /\ TimingIdle

\* profile.compute_next_report_at(now=arg_now)
PolicyCall ==
    /\ ~called
    /\ LET r == compute_next_report_at(inst, arg_now)
       IN  /\ inst' = r.self
           /\ ret' = r.ret
    /\ called' = TRUE
    /\ UNCHANGED <<world, runner, hist, upd, arg_now, fires, timing>>

\* The computed instant arrives: the next evaluation is made at that instant.
PolicyFire ==
    /\ called
    /\ ret # None
    /\ fires < MaxFires
    /\ arg_now' = ret
    /\ called' = FALSE
    /\ fires' = fires + 1
    /\ UNCHANGED <<world, runner, hist, upd, inst, ret, timing>>

PolicyNext == PolicyCall \/ PolicyFire

SpecPolicy == PolicyInit /\ [][PolicyNext]_vars


\* ------------------------------------------------- Configuration update
\* Profile.report_frequency's choices.
FrequencyChoices == {"daily", "weekly", "monthly"}
\* ReportScheduleForm.RANGE_CHOICES.
RANGE_CHOICES == {7, 30, 90}

\* The fields whose own validation fails (the form fields Django builds from
\* the declarations): a frequency or weekday outside the choices, a range
\* outside RANGE_CHOICES.
field_errors(data) ==
    {f \in {"report_frequency"} : data.report_frequency \notin FrequencyChoices}
    \cup {f \in {"report_day_of_week"} :
            data.report_day_of_week \notin ({NoStr} \cup {DayNames[i] : i \in 1..7})}
    \cup {f \in {"report_range_days"} : data.report_range_days \notin RANGE_CHOICES}

\* super().clean(): cleaned_data holds the fields that passed; cleaned.get of
\* any other gives None.
fields_cleaned(data) ==
    [data EXCEPT
        !.report_frequency   = IF "report_frequency" \in field_errors(data) THEN NoStr ELSE @,
        !.report_day_of_week = IF "report_day_of_week" \in field_errors(data) THEN NoStr ELSE @,
        !.report_range_days  = IF "report_range_days" \in field_errors(data) THEN None ELSE @]

\* clean_disabled that leaves the day selectors as submitted.
clean_disabled_keeps(cleaned) ==
    cleaned

\* The "if not enabled" branch of ReportScheduleForm.clean.
clean_disabled(cleaned) ==
    [cleaned EXCEPT !.report_day_of_week = NoStr, !.report_day_of_month = None]

\* resolve_recipient without the fallback to the account's email.
resolve_recipient_as_given(recipient, fallback) ==
    recipient

\* "if not recipient": the account's email, when there is one, is taken.
resolve_recipient(recipient, fallback) ==
    IF recipient = NoStr /\ fallback # NoStr THEN fallback ELSE recipient

\* "if not recipient ... else: add_error('report_recipient_email', ...)"
recipient_errors(recipient, fallback) ==
    {f \in {"report_recipient_email"} : recipient = NoStr /\ fallback = NoStr}

\* time_errors that lets a missing time pass.
time_errors_none(report_time) ==
    {}

\* "if not report_time: add_error('report_time', ...)"
time_errors(report_time) ==
    {f \in {"report_time"} : report_time = None}

\* "if range_value not in {7, 30, 90}: add_error('report_range_days', ...)"
range_errors(range_days) ==
    {f \in {"report_range_days"} : range_days \notin RANGE_CHOICES}

\* day_errors with the day of the month checked against 1..31.
day_errors_to_31(frequency, day_of_week, day_of_month) ==
    IF frequency = "weekly" THEN
        {f \in {"report_day_of_week"} : day_of_week = NoStr}
    ELSE IF frequency = "monthly" THEN
        {f \in {"report_day_of_month"} :
            \/ day_of_month = None
            \/ day_of_month < 1
            \/ day_of_month > 31}
    ELSE {}

\* The add_error calls of the frequency branches.
day_errors(frequency, day_of_week, day_of_month) ==
    IF frequency = "weekly" THEN
        {f \in {"report_day_of_week"} : day_of_week = NoStr}
    ELSE IF frequency = "monthly" THEN
        {f \in {"report_day_of_month"} :
            \/ day_of_month = None
            \/ day_of_month < 1
            \/ day_of_month > 28}
    ELSE {}

\* exclusive_days whose weekly branch leaves the day of the month.
exclusive_days_weekly_keeps(cleaned, frequency) ==
    [cleaned EXCEPT
        !.report_day_of_week  = IF frequency = "weekly" THEN @ ELSE NoStr,
        !.report_day_of_month = IF frequency \in {"weekly", "monthly"} THEN @ ELSE None]

\* The assignments of the frequency branches: the selector the frequency
\* does not use is set to None.
exclusive_days(cleaned, frequency) ==
    [cleaned EXCEPT
        !.report_day_of_week  = IF frequency = "weekly" THEN @ ELSE NoStr,
        !.report_day_of_month = IF frequency = "monthly" THEN @ ELSE None]

\* clean that stops at the first check that fails.
clean_fail_fast(data, fallback) ==
    LET cleaned   == fields_cleaned(data)
        frequency == cleaned.report_frequency
        recipient == cleaned.report_recipient_email
        checks    == << recipient_errors(recipient, fallback),
                        time_errors(cleaned.report_time),
                        range_errors(cleaned.report_range_days),
                        day_errors(frequency, cleaned.report_day_of_week,
                                   cleaned.report_day_of_month) >>
        failing   == {i \in 1..4 : checks[i] # {}}
        first     == IF failing = {} THEN {}
                     ELSE checks[CHOOSE i \in failing : \A j \in failing : i <= j]
    IN  IF ~cleaned.report_schedule_enabled
        THEN [cleaned |-> clean_disabled(cleaned),
              errors  |-> field_errors(data)]
        ELSE [cleaned |-> exclusive_days(
                              [cleaned EXCEPT !.report_recipient_email =
                                                  resolve_recipient(recipient, fallback)],
                              frequency),
              errors  |-> field_errors(data) \cup first]

\* ReportScheduleForm.clean, with self.instance.user.email = fallback: the
\* cleaned data and the fields that carry an error.
clean(data, fallback) ==
    LET cleaned      == fields_cleaned(data)
        enabled      == cleaned.report_schedule_enabled
        frequency    == cleaned.report_frequency
        day_of_week  == cleaned.report_day_of_week
        day_of_month == cleaned.report_day_of_month
        report_time  == cleaned.report_time
        recipient    == cleaned.report_recipient_email
        range_days   == cleaned.report_range_days
    IN  IF ~enabled
        THEN [cleaned |-> clean_disabled(cleaned),
              errors  |-> field_errors(data)]
        ELSE [cleaned |-> exclusive_days(
                              [cleaned EXCEPT !.report_recipient_email =
                                                  resolve_recipient(recipient, fallback)],
                              frequency),
              errors  |-> field_errors(data)
                          \cup recipient_errors(recipient, fallback)
                          \cup time_errors(report_time)
                          \cup range_errors(range_days)
                          \cup day_errors(frequency, day_of_week, day_of_month)]

\* The ModelForm writes Meta.fields of cleaned_data onto its instance.
construct_instance(instance, cleaned) ==
    [instance EXCEPT
        !.report_schedule_enabled = cleaned.report_schedule_enabled,
        !.report_recipient_email  = cleaned.report_recipient_email,
        !.report_frequency        = cleaned.report_frequency,
        !.report_day_of_week      = cleaned.report_day_of_week,
        !.report_day_of_month     = cleaned.report_day_of_month,
        !.report_time             = cleaned.report_time,
        !.report_range_days       = cleaned.report_range_days]

\* Steps (c) and (d) of the configuration update: next_report_at is
\* recomputed by the Policy at the current instant, then the row is saved.
save_schedule(instance, cleaned, at) ==
    compute_next_report_at(construct_instance(instance, cleaned), at).self

\* One submission of the schedule form.
Form(enabled, recipient, frequency, day_of_week, day_of_month, report_time, range_days) ==
    [ report_schedule_enabled |-> enabled,
      report_recipient_email  |-> recipient,
      report_frequency        |-> frequency,
      report_day_of_week      |-> day_of_week,
      report_day_of_month     |-> day_of_month,
      report_time             |-> report_time,
      report_range_days       |-> range_days ]

\* What users submit: disabling (with leftovers in the other fields), each
\* frequency filled in properly (with leftovers in the day selector it does
\* not use, with and without a recipient), and a form filled in wrongly.
FormData ==
    { Form(FALSE, RecipientAddr, "monthly", "thursday", 29, None, 7),
      Form(TRUE, NoStr, "daily", "thursday", 29, DefaultReportTime, 7),
      Form(TRUE, NoStr, "weekly", "thursday", 1, DefaultReportTime, 7),
      Form(TRUE, RecipientAddr, "monthly", "thursday", 28, DefaultReportTime, 7),
      Form(TRUE, RecipientAddr, "monthly", NoStr, 29, DefaultReportTime, 30) }

\* The configuration-update operation for user u: validate, normalise,
\* recompute, persist; a submission with errors persists nothing.
UpdateConfig(u, data) ==
    /\ nupd < MaxUpdates
    /\ \E r \in {clean(data, email[u])} :
       LET ok == r.errors = {}
       IN  /\ store' = IF ok
                       THEN [store EXCEPT ![u] = save_schedule(store[u], r.cleaned, clock)]
                       ELSE store
           /\ upd' = [user |-> u, ok |-> ok, enabled |-> data.report_schedule_enabled,
                       errors |-> r.errors, data |-> data]
           /\ touched' = IF ok /\ pc = "pass" THEN touched \cup {u} ELSE touched
    /\ nupd' = nupd + 1
    /\ UNCHANGED <<clock, email, runner, results, last, prev, dfor, faults, aside>>

\* The account's email address is changed or removed outside the scheduler.
SetAccountEmail(u, e) ==
    /\ nupd < MaxEmailChanges
    /\ e # email[u]
    /\ email' = [email EXCEPT ![u] = e]
    /\ touched' = IF pc = "pass" THEN touched \cup {u} ELSE touched
    /\ nupd' = nupd + 1
    /\ upd' = NoUpdate
    /\ UNCHANGED <<clock, store, runner, results, last, prev, dfor, faults, aside>>

\* Time passes, by one slot: between passes, a pass being far shorter than a
\* slot.  No later pass has the now of the pass before.
Tick ==
    /\ pc # "pass"
    /\ clock < RunStart + RunSlots - 1
    /\ clock' = clock + 1
    /\ prev' = NoPass
    /\ upd' = NoUpdate
    /\ UNCHANGED <<email, store, runner, results, last, touched, dfor, faults, nupd, aside>>


\* ------------------------------------------------------ Delivery Runner
\* What send_report_email and the save after it can do: return, raise in
\* the delivery, raise in the save, or not return because the process is
\* stopped or KeyboardInterrupt is raised in it, which except Exception does
\* not catch (before the email went out, or after it and before the save).
Outcomes == {"ok", "deliver_raises", "save_raises", "interrupted", "killed"}

\* Profile.objects.select_related('user').filter(report_schedule_enabled=True),
\* evaluated when the for loop starts: rows with their user, by primary key.
RECURSIVE load(_, _, _)
load(rows, emails, us) ==
    LET enabled == {u \in us : rows[u].report_schedule_enabled}
    IN  IF enabled = {}
        THEN <<>>
        ELSE LET u == CHOOSE x \in enabled : \A y \in enabled : x <= y
             IN  <<[p |-> rows[u], user_email |-> emails[u]]>>
                 \o load(rows, emails, enabled \ {u})

\* recipient_of with a site-wide address when neither address is set.
recipient_of_default(p, user_email) ==
    IF p.report_recipient_email # NoStr THEN p.report_recipient_email
    ELSE IF user_email # NoStr THEN user_email
    ELSE "postmaster@example.org"

\* recipient = profile.report_recipient_email or profile.user.email
recipient_of(p, user_email) ==
    IF p.report_recipient_email # NoStr THEN p.report_recipient_email ELSE user_email

\* on_exception that advances the schedule although the attempt failed.
on_exception_advances(base, p, pass_now, delivered) ==
    [base EXCEPT !.kind = IF delivered THEN "save_raises" ELSE "deliver_raises",
                 !.skipped = 1, !.invoked = TRUE, !.delivered = delivered,
                 !.write = TRUE,
                 !.row = compute_next_report_at(
                             [p EXCEPT !.last_report_sent_at = pass_now],
                             pass_now).self]

\* on_exception that lets the exception out of the for loop.
on_exception_propagates(base, p, pass_now, delivered) ==
    [base EXCEPT !.kind = IF delivered THEN "save_raises" ELSE "deliver_raises",
                 !.invoked = TRUE, !.delivered = delivered, !.abort = TRUE]

\* on_exception without "skipped += 1": the failure is logged only.
on_exception_uncounted(base, p, pass_now, delivered) ==
    [base EXCEPT !.kind = IF delivered THEN "save_raises" ELSE "deliver_raises",
                 !.invoked = TRUE, !.delivered = delivered]

\* The except clause of the try statement: the failure is logged and the
\* schedule counted as skipped; delivered tells whether send_report_email
\* had returned when the exception was raised.
on_exception(base, p, pass_now, delivered) ==
    [base EXCEPT !.kind = IF delivered THEN "save_raises" ELSE "deliver_raises",
                 !.skipped = 1, !.invoked = TRUE, !.delivered = delivered]

\* attempt without the call of compute_next_report_at: the row is saved with
\* the next_report_at it was loaded with.
attempt_without_advance(base, p, pass_now, outcome) ==
    IF outcome = "ok" THEN
        [base EXCEPT !.kind = "sent", !.sent = 1, !.invoked = TRUE,
                     !.delivered = TRUE, !.write = TRUE,
                     !.row = [p EXCEPT !.last_report_sent_at = pass_now]]
    ELSE IF outcome \in {"deliver_raises", "save_raises"} THEN
        [base EXCEPT !.kind = outcome, !.skipped = 1, !.invoked = TRUE,
                     !.delivered = (outcome = "save_raises")]
    ELSE
        [base EXCEPT !.kind = outcome, !.invoked = TRUE,
                     !.delivered = (outcome = "killed"), !.abort = TRUE]

\* attempt whose save leaves last_report_sent_at out of update_fields: the
\* row is written with the new next_report_at and the old last_report_sent_at.
attempt_saves_next_only(base, p, pass_now, outcome) ==
    IF outcome = "ok" THEN
        [base EXCEPT !.kind = "sent", !.sent = 1, !.invoked = TRUE,
                     !.delivered = TRUE, !.write = TRUE,
                     !.row = compute_next_report_at(p, pass_now).self]
    ELSE IF outcome \in {"deliver_raises", "save_raises"} THEN
        [base EXCEPT !.kind = outcome, !.skipped = 1, !.invoked = TRUE,
                     !.delivered = (outcome = "save_raises")]
    ELSE
        [base EXCEPT !.kind = outcome, !.invoked = TRUE,
                     !.delivered = (outcome = "killed"), !.abort = TRUE]

\* The try statement: send_report_email, last_report_sent_at = now,
\* compute_next_report_at(now), save, sent += 1.
attempt(base, p, pass_now, outcome) ==
    IF outcome = "ok" THEN
        [base EXCEPT !.kind = "sent", !.sent = 1, !.invoked = TRUE,
                     !.delivered = TRUE, !.write = TRUE,
                     !.row = compute_next_report_at(
                                 [p EXCEPT !.last_report_sent_at = pass_now],
                                 pass_now).self]
    ELSE IF outcome = "deliver_raises" THEN
        on_exception(base, p, pass_now, FALSE)
    ELSE IF outcome = "save_raises" THEN
        on_exception(base, p, pass_now, TRUE)
    ELSE IF outcome = "interrupted" THEN
        [base EXCEPT !.kind = "interrupted", !.invoked = TRUE, !.abort = TRUE]
    ELSE
        [base EXCEPT !.kind = "killed", !.invoked = TRUE, !.delivered = TRUE,
                     !.abort = TRUE]

\* process without the dry-run branch.
process_ignores_dry(p, user_email, pass_now, dry, outcome) ==
    LET base == [kind |-> "not_due", sent |-> 0, skipped |-> 0,
                 invoked |-> FALSE, delivered |-> FALSE,
                 write |-> FALSE, row |-> p, abort |-> FALSE]
    IN  IF p.next_report_at = None \/ p.next_report_at > pass_now THEN
            [base EXCEPT !.skipped = 1]
        ELSE IF recipient_of(p, user_email) = NoStr THEN
            [base EXCEPT !.kind = "no_recipient", !.skipped = 1]
        ELSE
            attempt(base, p, pass_now, outcome)

\* process with "if next_at > now" for "if not next_at or next_at > now": a
\* schedule without a next_report_at is taken as due.
process_null_is_due(p, user_email, pass_now, dry, outcome) ==
    LET base == [kind |-> "not_due", sent |-> 0, skipped |-> 0,
                 invoked |-> FALSE, delivered |-> FALSE,
                 write |-> FALSE, row |-> p, abort |-> FALSE]
    IN  IF p.next_report_at > pass_now THEN
            [base EXCEPT !.skipped = 1]
        ELSE IF recipient_of(p, user_email) = NoStr THEN
            [base EXCEPT !.kind = "no_recipient", !.skipped = 1]
        ELSE IF dry THEN
            [base EXCEPT !.kind = "dry_run"]
        ELSE
            attempt(base, p, pass_now, outcome)

\* process without the check of next_report_at against now: every loaded
\* schedule with a recipient is taken as due.
process_without_due_check(p, user_email, pass_now, dry, outcome) ==
    LET base == [kind |-> "not_due", sent |-> 0, skipped |-> 0,
                 invoked |-> FALSE, delivered |-> FALSE,
                 write |-> FALSE, row |-> p, abort |-> FALSE]
    IN  IF recipient_of(p, user_email) = NoStr THEN
            [base EXCEPT !.kind = "no_recipient", !.skipped = 1]
        ELSE IF dry THEN
            [base EXCEPT !.kind = "dry_run"]
        ELSE
            attempt(base, p, pass_now, outcome)

\* The body of the for loop of _run_once for one loaded profile p.
\*   kind       which branch was taken
\*   sent, skipped   what is added to the counters
\*   invoked    send_report_email was called
\*   delivered  the email went out
\*   write      profile.save(update_fields=...) committed row
\*   abort      the process stopped inside the iteration
process(p, user_email, pass_now, dry, outcome) ==
    LET next_at   == p.next_report_at
        recipient == recipient_of(p, user_email)
        base      == [kind |-> "not_due", sent |-> 0, skipped |-> 0,
                      invoked |-> FALSE, delivered |-> FALSE,
                      write |-> FALSE, row |-> p, abort |-> FALSE]
    IN  IF next_at = None \/ next_at > pass_now THEN
            [base EXCEPT !.skipped = 1]
        ELSE IF recipient = NoStr THEN
            [base EXCEPT !.kind = "no_recipient", !.skipped = 1]
        ELSE IF dry THEN
            [base EXCEPT !.kind = "dry_run"]
        ELSE
            attempt(base, p, pass_now, outcome)

\* Users of the pass's results that were counted as sent, and that got an email.
SentIn(rs)      == {rs[i].user : i \in {j \in 1..Len(rs) : rs[j].kind = "sent"}}
DeliveredIn(rs) == {rs[i].user : i \in {j \in 1..Len(rs) : rs[j].delivered}}

\* _run_once begins: now is read, the counters are zeroed, the rows are loaded.
StartPass ==
    /\ now' = clock
    /\ profiles' = load(store, email, Users)
    /\ idx' = 0
    /\ sent' = 0
    /\ skipped' = 0
    /\ results' = <<>>
    /\ last' = NoStr
    /\ touched' = {}
    /\ pc' = "pass"
    /\ upd' = NoUpdate

\* The command process is gone (or _run_once has returned): its locals with it.
LocalsGone ==
    /\ now' = None
    /\ profiles' = <<>>
    /\ idx' = 0
    /\ sent' = 0
    /\ skipped' = 0
    /\ results' = <<>>
    /\ touched' = {}

\* Command.handle is entered with its options and makes its first pass.
Handle(dry, lp) ==
    /\ pc = "idle"
    /\ dry_run' = dry
    /\ loop' = lp
    /\ StartPass
    /\ UNCHANGED <<world, prev, dfor, faults, nupd, aside>>

\* The loop's sleep returns and no pass is made.
Wake_without_pass ==
    /\ pc = "sleep"
    /\ upd' = NoUpdate
    /\ UNCHANGED <<world, runner, hist, aside>>

\* time.sleep(interval) returns and the loop makes its next pass.
Wake ==
    /\ pc = "sleep"
    /\ StartPass
    /\ UNCHANGED <<world, dry_run, loop, prev, dfor, faults, nupd, aside>>

\* One iteration of the for loop.
Step(outcome) ==
    /\ pc = "pass"
    /\ idx < Len(profiles)
    /\ \E e \in {profiles[idx + 1]} :
       \E r \in {process(e.p, e.user_email, now, dry_run, outcome)} :
       LET u == e.p.user
           lost == IF r.delivered /\ ~r.write THEN 1 ELSE 0
       IN  /\ \/ outcome = "ok"
              \/ r.kind = outcome
           /\ lost = 1 => faults < MaxFaults
           /\ faults' = faults + lost
           /\ store' = IF r.write THEN [store EXCEPT ![u] = r.row] ELSE store
           /\ dfor' = IF ~r.delivered THEN dfor
                      ELSE IF dfor[u].value = e.p.next_report_at
                      THEN [dfor EXCEPT ![u].n = @ + 1, ![u].lost = @ + lost]
                      ELSE [dfor EXCEPT ![u] = [value |-> e.p.next_report_at,
                                                n |-> 1, lost |-> lost]]
           /\ last' = r.kind
           /\ IF r.abort
              THEN /\ pc' = "idle"
                   /\ dry_run' = FALSE
                   /\ loop' = FALSE
                   /\ prev' = NoPass
                   /\ LocalsGone
              ELSE /\ pc' = "pass"
                   /\ idx' = idx + 1
                   /\ sent' = sent + r.sent
                   /\ skipped' = skipped + r.skipped
                   /\ results' = Append(results,
                                    [user |-> u, kind |-> r.kind, invoked |-> r.invoked,
                                     delivered |-> r.delivered])
                   /\ UNCHANGED <<dry_run, loop, now, profiles, prev, touched>>
    /\ upd' = NoUpdate
    /\ UNCHANGED <<clock, email, nupd, aside>>

\* The for loop is over: "Sent {sent} report(s); skipped {skipped} not due."
\* is written and _run_once returns; the command sleeps or ends.
Finish ==
    /\ pc = "pass"
    /\ idx = Len(profiles)
    /\ prev' = [now |-> now, sent |-> SentIn(results), delivered |-> DeliveredIn(results)]
    /\ pc' = IF loop THEN "sleep" ELSE "idle"
    /\ dry_run' = (loop /\ dry_run)
    /\ loop' = loop
    /\ LocalsGone
    /\ last' = NoStr
    /\ upd' = NoUpdate
    /\ UNCHANGED <<world, dfor, faults, nupd, aside>>

\* KeyboardInterrupt during time.sleep: the loop stops.
Interrupt ==
    /\ pc = "sleep"
    /\ pc' = "idle"
    /\ dry_run' = FALSE
    /\ loop' = FALSE
    /\ upd' = NoUpdate
    /\ UNCHANGED <<world, locals, hist, aside>>

Init == WorldInit /\ PolicyIdle /\ TimingIdle

Next ==
    \/ \E u \in Users, data \in FormData : UpdateConfig(u, data)
    \/ Tick
    \/ \E dry \in BOOLEAN, lp \in BOOLEAN : Handle(dry, lp)
    \/ Wake
    \/ \E outcome \in Outcomes : Step(outcome)
    \/ Finish
    \/ Interrupt

Spec == Init /\ [][Next]_vars

\* ------------------------------------------- Runner over stored rows
\* The runner taken as a function of what the store holds: the rows the
\* configuration update writes for the submitted forms, each also with its
\* recipient column emptied; user 1's account has an email address, user
\* 2's has one or none and gets or loses it as the runner goes;
\* and a row enabled without an evaluation of the Policy (next_report_at is
\* a nullable column, null by default).
StoredRows(u) ==
    {DefaultProfile(u)}
    \cup { [save_schedule(DefaultProfile(u), clean(f, AccountAddr(u)).cleaned, RunStart)
              EXCEPT !.report_recipient_email = r] :
           f \in {g \in FormData : clean(g, AccountAddr(u)).errors = {}
                                   /\ g.report_schedule_enabled
                                   /\ g.report_frequency # "weekly"},
           r \in {NoStr, RecipientAddr} }
    \cup { [DefaultProfile(u) EXCEPT !.report_schedule_enabled = TRUE,
                                     !.report_recipient_email = RecipientAddr] }

RowsInit ==
    /\ clock = RunStart
    /\ email \in {[u \in Users |-> IF u = 1 THEN AccountAddr(1) ELSE e] :
                     e \in {NoStr, AccountAddr(2)}}
    /\ store \in [Users -> UNION {StoredRows(u) : u \in Users}]
    /\ \A u \in Users : store[u].user = u
    /\ store[2].report_frequency = "daily"
    /\ store[2].report_recipient_email = NoStr
    /\ RunnerInit
    /\ PolicyIdle
    /\ TimingIdle

RowsNext ==
    \/ \E e \in {NoStr, AccountAddr(2)} : SetAccountEmail(2, e)
    \/ Tick
    \/ \E dry \in BOOLEAN, lp \in BOOLEAN : Handle(dry, lp)
    \/ Wake
    \/ \E outcome \in Outcomes : Step(outcome)
    \/ Finish
    \/ Interrupt

SpecRows == RowsInit /\ [][RowsNext]_vars

\* ------------------------------------------- Runner under a stepped clock
\* The system clock is set back by one slot between passes (a clock
\* correction): timezone.localtime() of a later pass is earlier.
ClockBack ==
    /\ pc # "pass"
    /\ clock > RunStart
    /\ clock' = clock - 1
    /\ prev' = NoPass
    /\ upd' = NoUpdate
    /\ UNCHANGED <<email, store, runner, results, last, touched, dfor, faults, nupd, aside>>

\* The runner on stored rows nobody changes, every account with an email
\* address, under a clock that goes forward and back.
ClockInit ==
    /\ clock = RunStart
    /\ email = [u \in Users |-> AccountAddr(u)]
    /\ store \in [Users -> UNION {StoredRows(u) : u \in Users}]
    /\ \A u \in Users : store[u].user = u
    /\ store[2].report_frequency = "daily"
    /\ store[2].report_recipient_email = NoStr
    /\ RunnerInit
    /\ PolicyIdle
    /\ TimingIdle

ClockNext ==
    \/ Tick
    \/ ClockBack
    \/ \E dry \in BOOLEAN, lp \in BOOLEAN : Handle(dry, lp)
    \/ Wake
    \/ \E outcome \in Outcomes : Step(outcome)
    \/ Finish
    \/ Interrupt

SpecClock == ClockInit /\ [][ClockNext]_vars

\* ------------------------------------------------------ The loop, kept up
\* The command started with --loop on schedules configured beforehand and
\* left to run: nobody interrupts it and nobody changes a schedule under it.
\* The iteration of the for loop that sends user u's report.
SendTo(u) ==
    /\ Step("ok")
    /\ last' = "sent"
    /\ results'[idx'].user = u

LoopNext ==
    \/ \E u \in Users, data \in FormData : pc = "idle" /\ UpdateConfig(u, data)
    \/ Tick
    \/ \E dry \in BOOLEAN : Handle(dry, TRUE)
    \/ Wake
    \/ \E outcome \in {"ok", "deliver_raises", "save_raises"} : Step(outcome)
    \/ Finish

\* The process runs: the sleep returns, the for loop goes on, _run_once
\* returns.  The delivery capability does not fail for ever: a report that
\* can be sent again and again is sent.
LoopFairness ==
    /\ WF_vars(Wake)
    /\ WF_vars(Finish)
    /\ WF_vars(\E outcome \in {"ok", "deliver_raises", "save_raises"} : Step(outcome))
    /\ \A u \in Users : SF_vars(SendTo(u))

SpecLoop == Init /\ [][LoopNext]_vars /\ LoopFairness

\* ------------------------------------------- Configuration updates alone
\* Every way of filling in the form: each field empty and filled, valid and
\* not, in every combination.
AllForms ==
    { Form(e, r, f, w, m, t, g) :
        e \in BOOLEAN,
        r \in {NoStr, RecipientAddr},
        f \in FrequencyChoices \cup {"yearly"},
        w \in {NoStr, "thursday"},
        m \in {None, 0, 1, 28, 29},
        t \in {None, DefaultReportTime},
        g \in {5, 7} }

\* The rows the form is submitted on: the one the account was created with,
\* and one an earlier update made an enabled monthly schedule.
FormRows(u) ==
    { DefaultProfile(u),
      save_schedule(DefaultProfile(u),
                    clean(Form(TRUE, RecipientAddr, "monthly", "thursday", 28,
                               DefaultReportTime, 7), NoStr).cleaned,
                    RunStart) }

\* User 1 registered with or without an email address.
FormInit ==
    /\ clock = RunStart
    /\ email \in {[u \in Users |-> IF u = 1 THEN e ELSE RegisteredEmail(u)] :
                     e \in {NoStr, AccountAddr(1)}}
    /\ store \in {[u \in Users |-> IF u = 1 THEN r ELSE DefaultProfile(u)] :
                     r \in FormRows(1)}
    /\ RunnerInit
    /\ PolicyIdle
    /\ TimingIdle

FormNext == \E data \in AllForms : nupd < MaxSubmissions /\ UpdateConfig(1, data)

SpecForm == FormInit /\ [][FormNext]_vars

\* ------------------------------------------------- Interval of the loop
\* parser.add_argument('--interval', type=int, default=300): the value
\* handle finds in options.
DefaultInterval == 300
parsed_interval(opt) == IF opt.given THEN opt.value ELSE DefaultInterval

\* The least interval handle sleeps for.
IntervalFloor == 30

\* interval = max(30, options.get('interval') or 300); 0 is falsy.
effective_interval(value) ==
    LET given_or_default == IF value = 0 THEN 300 ELSE value
    IN  IF given_or_default < IntervalFloor THEN IntervalFloor ELSE given_or_default

IntervalOptions ==
    {NoInterval} \cup {[given |-> TRUE, value |-> v] : v \in (0 - BelowZero)..MaxInterval}

IntervalInit ==
    /\ WorldInit
    /\ PolicyIdle
    /\ interval_opt \in IntervalOptions
    /\ interval = None

\* handle computes the interval it will sleep for between passes.
ReadInterval ==
    /\ interval = None
    /\ interval' = effective_interval(parsed_interval(interval_opt))
    /\ UNCHANGED <<world, runner, hist, upd, policy, interval_opt>>

SpecInterval == IntervalInit /\ [][ReadInterval]_vars

\* ================================================================ claims

\* The rule of the else branch, from the calendar: the day of the month asked
\* for (today's when none is), cut to the month's length, at time t; in the
\* month of at when that is after at, in the month after otherwise.
MonthRule(dom, t, at) ==
    LET today == DateOf(at)
        d     == IF dom = None \/ dom = 0 THEN today.day ELSE dom
        ny    == IF today.month = 12 THEN today.year + 1 ELSE today.year
        nm    == IF today.month = 12 THEN 1 ELSE today.month + 1
        this  == MakeDt([year |-> today.year, month |-> today.month,
                         day |-> Min(d, DaysInMonth(today.year, today.month))], t)
        after == MakeDt([year |-> ny, month |-> nm,
                         day |-> Min(d, DaysInMonth(ny, nm))], t)
    IN  IF this > at THEN this ELSE after

\* A loaded row is due at instant t.
DueAt(p, t) == p.next_report_at # None /\ p.next_report_at <= t

\* C1  Forward progress: for a valid configuration (daily; weekly with a day
\* of the week; monthly with a day of the month in 1..28) and any now,
\* compute_next_report_at(now) returns None exactly when the schedule is
\* disabled or has no time, and otherwise an instant strictly after now.
C1_ForwardProgress ==
    ( /\ called
      /\ \/ inst.report_frequency = "daily"
         \/ /\ inst.report_frequency = "weekly"
            /\ inst.report_day_of_week \in {DayNames[i] : i \in 1..7}
         \/ /\ inst.report_frequency = "monthly"
            /\ inst.report_day_of_month \in 1..28 )
    => /\ inst.next_report_at = ret
       /\ IF ~inst.report_schedule_enabled \/ inst.report_time = None
          THEN ret = None
          ELSE ret # None /\ ret > arg_now

\* C1 witness: a monthly schedule evaluated at the very instant it fell due
\* in December gets its next instant in January.
C1_Witness ==
    /\ called
    /\ fires = 1
    /\ inst.report_schedule_enabled
    /\ inst.report_frequency = "monthly"
    /\ inst.report_day_of_month \in 1..28
    /\ ret # None
    /\ DateOf(arg_now).month = 12
    /\ DateOf(arg_now).day = inst.report_day_of_month
    /\ SlotOf(arg_now) = inst.report_time
    /\ DateOf(ret).month = 1
    /\ ret > arg_now

\* C2 as stated: two passes in immediate succession with the same now
\* deliver at most one report per schedule in total.
C2_AtMostOneInTwoPasses ==
    \A u \in Users :
        ~( /\ pc = "pass"
           /\ prev.now = now
           /\ u \in prev.delivered
           /\ u \in DeliveredIn(results) )

\* C2  Idempotent non-refire, as the code has it: a schedule the first pass
\* counted as sent is loaded by an immediately following pass with the same
\* now with next_report_at > now, is counted as skipped there, and gets no
\* second delivery.  (A schedule whose email went out while its save raised
\* was not counted as sent, and is delivered again.)
C2_SentIsNotRefired ==
    (pc = "pass" /\ prev.now = now) =>
        \A i \in 1..Len(profiles) :
            profiles[i].p.user \in prev.sent =>
                /\ profiles[i].p.next_report_at # None
                /\ profiles[i].p.next_report_at > now
                /\ i <= Len(results) =>
                      /\ results[i].kind = "not_due"
                      /\ ~results[i].invoked
                      /\ ~results[i].delivered

\* C2 witness: the second pass has gone through a schedule the first one sent.
C2_Witness ==
    /\ pc = "pass"
    /\ prev.now = now
    /\ \E i \in 1..Len(results) :
          /\ results[i].user \in prev.sent
          /\ results[i].kind = "not_due"
          /\ skipped >= 1

\* C3 as stated: no value of next_report_at gets two deliveries.
C3_ExactlyOncePerOccurrence ==
    \A u \in Users : dfor[u].n <= 1

\* C3  Deliveries per due occurrence, as the code has it: for one value of
\* next_report_at a schedule gets at most one delivery, and one more for
\* each delivery whose state write was lost (the save raised, or the process
\* was stopped between the delivery and the save).
C3_AtMostOncePlusLostWrites ==
    \A u \in Users : dfor[u].n <= 1 + dfor[u].lost

\* C3 witness: a second delivery for the same value of next_report_at.
C3_Witness ==
    \E u \in Users : dfor[u].n = 2 /\ dfor[u].lost = 1 /\ dfor[u].value # None

\* C4  Failure does not advance: the iteration in which send_report_email
\* raises writes no row (next_report_at and last_report_sent_at stay as they
\* were), adds one to skipped and none to sent, and leaves the schedule due
\* at the same now.
C4_FailureDoesNotAdvance ==
    [][ (pc = "pass" /\ idx' = idx + 1 /\ last' = "deliver_raises") =>
            LET p == profiles[idx + 1].p
            IN  /\ store' = store
                /\ skipped' = skipped + 1
                /\ sent' = sent
                /\ pc' = "pass"
                /\ p.user \notin touched =>
                      /\ store'[p.user].report_schedule_enabled
                      /\ store'[p.user].last_report_sent_at = p.last_report_sent_at
                      /\ store'[p.user].next_report_at = p.next_report_at
                      /\ DueAt(store'[p.user], now) ]_vars

\* C4 witness: the pass has counted a failed delivery as skipped.
C4_Witness ==
    /\ pc = "pass"
    /\ last = "deliver_raises"
    /\ idx >= 1
    /\ results[idx].kind = "deliver_raises"
    /\ skipped >= 1
    /\ DueAt(store[results[idx].user], now)

\* C5  Per-schedule failure isolation: an exception of the delivery or of
\* the save leaves the pass running; in a pass that is not a dry run every
\* due schedule with a recipient gone through so far was attempted, wherever
\* the failing one stood; and the counters the pass reports hold the
\* schedules sent and the schedules skipped.
C5_FailureIsolation ==
    /\ last \in {"deliver_raises", "save_raises"} => pc = "pass"
    /\ pc = "pass" =>
          /\ idx = Len(results)
          /\ sent = Cardinality({i \in 1..idx : results[i].kind = "sent"})
          /\ skipped = Cardinality({i \in 1..idx :
                          results[i].kind \in {"not_due", "no_recipient",
                                               "deliver_raises", "save_raises"}})
          /\ ~dry_run =>
                \A i \in 1..idx :
                    ( /\ DueAt(profiles[i].p, now)
                      /\ \/ profiles[i].p.report_recipient_email # NoStr
                         \/ profiles[i].user_email # NoStr )
                    => results[i].invoked

\* C5 witness: the first schedule's delivery failed and the second one's
\* report was sent, and the other way round is a pass as well.
C5_Witness ==
    /\ pc = "pass"
    /\ idx = 2
    /\ results[1].kind = "deliver_raises"
    /\ results[2].kind = "sent"
    /\ sent = 1
    /\ skipped = 1

\* C6  Missing recipient skip: the iteration for a due schedule that has
\* neither a recipient nor an account email adds one to skipped, does not
\* call send_report_email, and writes no row, so the schedule stays due.
C6_MissingRecipientSkip ==
    [][ ( /\ pc = "pass"
          /\ idx < Len(profiles)
          /\ idx' = idx + 1
          /\ DueAt(profiles[idx + 1].p, now)
          /\ profiles[idx + 1].p.report_recipient_email = NoStr
          /\ profiles[idx + 1].user_email = NoStr )
        => /\ skipped' = skipped + 1
           /\ sent' = sent
           /\ store' = store
           /\ dfor' = dfor
           /\ results'[idx'].kind = "no_recipient"
           /\ ~results'[idx'].invoked
           /\ ~results'[idx'].delivered
           /\ pc' = "pass" ]_vars

\* C6 witness: a due schedule was skipped for want of a recipient and its
\* row is still due.
C6_Witness ==
    /\ pc = "pass"
    /\ idx >= 1
    /\ results[idx].kind = "no_recipient"
    /\ skipped >= 1
    /\ store[results[idx].user].report_recipient_email = NoStr
    /\ DueAt(store[results[idx].user], now)

\* C7  Disabled clears derived state: right after an accepted configuration
\* update with enabled = false the persisted row has next_report_at,
\* report_day_of_week and report_day_of_month null, whatever it held before
\* and whatever the form carried in the other fields.
C7_DisabledClears ==
    (upd.ok /\ ~upd.enabled) =>
        /\ ~store[upd.user].report_schedule_enabled
        /\ store[upd.user].next_report_at = None
        /\ store[upd.user].report_day_of_week = NoStr
        /\ store[upd.user].report_day_of_month = None

\* C7 witness: a schedule that had been enabled and sent is disabled.
C7_Witness ==
    /\ upd.ok
    /\ ~upd.enabled
    /\ store[upd.user].last_report_sent_at # None
    /\ store[upd.user].next_report_at = None

\* C8  An accepted update that leaves the schedule enabled with a time of
\* day persists a next_report_at that is not null, is what the Policy gives
\* for the new configuration at the instant of the update, and is strictly
\* after that instant.
C8_UpdateRecomputes ==
    (upd.ok /\ upd.enabled /\ store[upd.user].report_time # None) =>
        /\ store[upd.user].report_schedule_enabled
        /\ store[upd.user].next_report_at # None
        /\ store[upd.user].next_report_at = next_candidate(store[upd.user], clock)
        /\ store[upd.user].next_report_at > clock

\* C8 witness: a weekly schedule for Thursday saved on a Thursday at its
\* time of day is next due a week later.
C8_Witness ==
    /\ upd.ok
    /\ upd.enabled
    /\ store[upd.user].report_frequency = "weekly"
    /\ store[upd.user].report_day_of_week = DayNames[Weekday(DateOf(clock)) + 1]
    /\ store[upd.user].report_time = SlotOf(clock)
    /\ store[upd.user].next_report_at = clock + 7 * SlotsPerDay

C10_DryRunMutatesNothing ==
    [][ (pc = "pass" /\ dry_run /\ (idx' # idx \/ pc' # pc)) =>
            /\ store' = store
            /\ dfor' = dfor
            /\ faults' = faults
            /\ idx' = idx + 1 =>
                  /\ ~results'[idx'].invoked
                  /\ ~results'[idx'].delivered
                  /\ sent' = 0
                  /\ pc' = "pass" ]_vars

\* C10 witness: a pass after the first of a dry-run loop has gone through a
\* due schedule with a recipient.
C10_Witness ==
    /\ pc = "pass"
    /\ dry_run
    /\ loop
    /\ prev.now = now
    /\ idx >= 1
    /\ results[idx].kind = "dry_run"
    /\ DueAt(store[results[idx].user], now)

\* C11 as stated: the interval handle sleeps for is max(30, supplied value)
\* for every integer supplied, and 300 when --interval is not given.
C11_IntervalIsFlooredOption ==
    interval # None =>
        interval = IF interval_opt.given
                   THEN (IF interval_opt.value < 30 THEN 30 ELSE interval_opt.value)
                   ELSE 300

\* C12 as stated: the command is stopped only between schedules or in its
\* sleep: it leaves a pass only when the iteration of every loaded schedule
\* is complete, never from inside the delivery of one.
C12_NoStopMidDelivery ==
    [][ (pc = "pass" /\ pc' # "pass") =>
            /\ idx = Len(profiles)
            /\ dfor' = dfor ]_vars

\* C13  Retry until success: in loop mode a schedule whose delivery raised
\* stays due (its row is not written, so every later pass attempts it
\* again), and when the delivery does not fail for ever the schedule is
\* marked sent: last_report_sent_at is the instant of the pass that sent it
\* and next_report_at is after it.
C13_RetryUntilSuccess ==
    /\ [][ (pc = "pass" /\ idx' = idx + 1 /\ last' = "deliver_raises") =>
               /\ store' = store
               /\ DueAt(store'[profiles[idx + 1].p.user], now) ]_vars
    /\ \A u \in Users :
          ( /\ pc = "pass"
            /\ loop
            /\ last = "deliver_raises"
            /\ results[idx].user = u )
          ~> ( /\ store[u].last_report_sent_at = clock
               /\ store[u].next_report_at > clock )

\* C13 witness: the pass after one in which the delivery raised, at the same
\* now, has sent the report.
C13_Witness ==
    /\ pc = "pass"
    /\ loop
    /\ prev.now = now
    /\ \E i \in 1..Len(results) :
          /\ results[i].kind = "sent"
          /\ results[i].user \notin prev.delivered
          /\ store[results[i].user].last_report_sent_at = clock
          /\ store[results[i].user].next_report_at > clock

\* C14  Day selectors are mutually exclusive in every persisted row, from
\* account creation through accepted updates and runner passes: weekly has no
\* day of the month, monthly no day of the week, daily neither.
C14_ExclusiveDaySelectors ==
    \A u \in Users :
        /\ store[u].report_frequency = "weekly" => store[u].report_day_of_month = None
        /\ store[u].report_frequency = "monthly" => store[u].report_day_of_week = NoStr
        /\ store[u].report_frequency = "daily" =>
              /\ store[u].report_day_of_week = NoStr
              /\ store[u].report_day_of_month = None

\* C14 witness: a weekly row and a monthly row, each with only its own
\* selector, after the runner has sent and saved the monthly one.
C14_Witness ==
    \E u \in Users, v \in Users :
        /\ store[u].report_schedule_enabled
        /\ store[u].report_frequency = "weekly"
        /\ store[u].report_day_of_week = "thursday"
        /\ store[u].report_day_of_month = None
        /\ store[v].report_frequency = "monthly"
        /\ store[v].report_day_of_month = 28
        /\ store[v].report_day_of_week = NoStr
        /\ store[v].last_report_sent_at # None

C16_RecipientResolvedOnEverySave ==
    [][ (nupd' = nupd + 1 /\ upd'.data.report_recipient_email = NoStr) =>
            IF email[upd'.user] # NoStr
            THEN upd'.ok => store'[upd'.user].report_recipient_email = email[upd'.user]
            ELSE /\ ~upd'.ok
                 /\ "report_recipient_email" \in upd'.errors
                 /\ store' = store ]_vars

\* C16  Recipient resolution, as the code has it: for an update that
\* enables the schedule and names no recipient, the account's email becomes
\* the recipient if there is one, and otherwise the update fails with an
\* error on the recipient and persists nothing; an update that disables the
\* schedule is not checked for a recipient and stores the one submitted.
C16_RecipientResolvedWhenEnabled ==
    [][ (nupd' = nupd + 1 /\ upd'.data.report_recipient_email = NoStr) =>
            IF ~upd'.data.report_schedule_enabled
            THEN /\ "report_recipient_email" \notin upd'.errors
                 /\ upd'.ok => store'[upd'.user].report_recipient_email = NoStr
            ELSE IF email[upd'.user] # NoStr
            THEN /\ "report_recipient_email" \notin upd'.errors
                 /\ upd'.ok => store'[upd'.user].report_recipient_email = email[upd'.user]
            ELSE /\ ~upd'.ok
                 /\ "report_recipient_email" \in upd'.errors
                 /\ store' = store ]_vars

\* C16 witness: an enabling update without a recipient was accepted and the
\* row's recipient is the account's email.
C16_Witness ==
    /\ upd.ok
    /\ upd.enabled
    /\ upd.data.report_recipient_email = NoStr
    /\ email[upd.user] # NoStr
    /\ store[upd.user].report_recipient_email = email[upd.user]

\* The fields of a submission that enables the schedule which break a rule
\* of the schedule's data: no recipient and no account email, no time of
\* day, a range that is not 7, 30 or 90, no day for the frequency's selector.
ViolatedFields(data, account_email) ==
    {f \in {"report_recipient_email"} :
        data.report_recipient_email = NoStr /\ account_email = NoStr}
    \cup {f \in {"report_time"} : data.report_time = None}
    \cup {f \in {"report_range_days"} : data.report_range_days \notin {7, 30, 90}}
    \cup {f \in {"report_day_of_week"} :
            data.report_frequency = "weekly" /\ data.report_day_of_week = NoStr}
    \cup {f \in {"report_day_of_month"} :
            data.report_frequency = "monthly" /\ data.report_day_of_month \notin 1..28}

\* C17  Validation does not fail fast: for an update that enables the
\* schedule, the fields among recipient, time of day, range and day selector
\* that carry an error are exactly the violated ones, however many are
\* violated at once.
C17_OneErrorPerViolatedField ==
    (upd.user # 0 /\ upd.data.report_schedule_enabled) =>
        upd.errors \ {"report_frequency"} = ViolatedFields(upd.data, email[upd.user])

\* C17 witness: recipient, time, range and day selector violated at once,
\* and four fields carry an error.
C17_Witness ==
    /\ upd.user # 0
    /\ upd.data.report_schedule_enabled
    /\ upd.errors = {"report_recipient_email", "report_time",
                     "report_range_days", "report_day_of_month"}

\* C18  A rejected update is never partially applied: a submission that
\* breaks a rule (a frequency or range outside the choices, or, when it
\* enables the schedule, a violated field) is rejected and leaves every
\* field of every persisted row as it was.
C18_RejectedUpdateChangesNothing ==
    [][ ( /\ nupd' = nupd + 1
          /\ \/ upd'.data.report_frequency \notin FrequencyChoices
             \/ upd'.data.report_range_days \notin {7, 30, 90}
             \/ /\ upd'.data.report_schedule_enabled
                /\ ViolatedFields(upd'.data, email[upd'.user]) # {} )
        => /\ ~upd'.ok
           /\ upd'.errors # {}
           /\ store' = store ]_vars

\* C18 witness: an update rejected for its time alone, on a row an earlier
\* update had enabled; the row is still as that update left it.
C18_Witness ==
    /\ upd.user # 0
    /\ ~upd.ok
    /\ upd.errors = {"report_time"}
    /\ upd.data.report_frequency = "weekly"
    /\ upd.data.report_range_days = 7
    /\ store[upd.user].report_schedule_enabled
    /\ store[upd.user].report_frequency = "monthly"
    /\ store[upd.user].report_time # None
    /\ store[upd.user].next_report_at # None

\* C19  Daily boundary: for an enabled daily schedule with time of day T,
\* the result is today at T when that is strictly after now and tomorrow at
\* T otherwise; at now = today at T exactly it is tomorrow at T, and one
\* slot before T it is today at T.
C19_DailyBoundary ==
    ( /\ called
      /\ inst.report_schedule_enabled
      /\ inst.report_time # None
      /\ inst.report_frequency = "daily" )
    => LET day == arg_now \div SlotsPerDay
           at  == day * SlotsPerDay + inst.report_time
       IN  /\ ret = IF at > arg_now THEN at ELSE at + SlotsPerDay
           /\ arg_now = at => ret = arg_now + SlotsPerDay
           /\ arg_now = at - 1 => ret = arg_now + 1

\* C19 witness: the call made at the very instant the schedule fell due
\* (now = today at T) returned tomorrow at T.
C19_Witness ==
    /\ called
    /\ fires = 1
    /\ inst.report_schedule_enabled
    /\ inst.report_frequency = "daily"
    /\ inst.report_time # None
    /\ SlotOf(arg_now) = inst.report_time
    /\ ret = arg_now + SlotsPerDay
    /\ DateOf(ret) = AddDays(DateOf(arg_now), 1)

\* C20  Weekly wraparound: for an enabled weekly schedule with day W and
\* time T the result is on today + ((W - weekday(today)) mod 7) days at T
\* when that is strictly after now and 7 days later otherwise; when today is
\* W and T has passed or is now, it is a week from today, not today.
C20_WeeklyWraparound ==
    ( /\ called
      /\ inst.report_schedule_enabled
      /\ inst.report_time # None
      /\ inst.report_frequency = "weekly"
      /\ inst.report_day_of_week \in {DayNames[i] : i \in 1..7} )
    => LET W     == (CHOOSE i \in 1..7 : DayNames[i] = inst.report_day_of_week) - 1
           day   == arg_now \div SlotsPerDay
           wd    == (day + 6) % 7
           ahead == (W - wd) % 7
           at    == (day + ahead) * SlotsPerDay + inst.report_time
       IN  /\ ret = IF at > arg_now THEN at ELSE at + 7 * SlotsPerDay
           /\ Weekday(DateOf(ret)) = W
           /\ SlotOf(ret) = inst.report_time
           /\ (wd = W /\ inst.report_time <= SlotOf(arg_now)) =>
                 DateOf(ret) = AddDays(DateOf(arg_now), 7)

\* C20 witness: a Monday schedule evaluated on a Monday at its time of day
\* is next due on the Monday after.
C20_Witness ==
    /\ called
    /\ inst.report_schedule_enabled
    /\ inst.report_frequency = "weekly"
    /\ inst.report_day_of_week = "monday"
    /\ inst.report_time # None
    /\ Weekday(DateOf(arg_now)) = 0
    /\ SlotOf(arg_now) = inst.report_time
    /\ ret = arg_now + 7 * SlotsPerDay
    /\ Weekday(DateOf(ret)) = 0

\* C21  Monthly rollover and clamp: for an enabled monthly schedule with day
\* of the month D and time T the result is day min(D, length of the month)
\* of now's month at T when that is strictly after now, and otherwise day
\* min(D, length of the next month) of the next month at T, January of the
\* next year following December; with D = 28, in February before the 28th
\* it is February 28, and evaluated again at that instant it is March 28.
C21_MonthlyRolloverAndClamp ==
    ( /\ called
      /\ inst.report_schedule_enabled
      /\ inst.report_time # None
      /\ inst.report_frequency = "monthly"
      /\ inst.report_day_of_month >= 1 )
    => LET D     == inst.report_day_of_month
           T     == inst.report_time
           today == DateOf(arg_now)
           ny    == IF today.month = 12 THEN today.year + 1 ELSE today.year
           nm    == IF today.month = 12 THEN 1 ELSE today.month + 1
           len   == DaysInMonth(today.year, today.month)
           nlen  == DaysInMonth(ny, nm)
           this  == [year |-> today.year, month |-> today.month,
                     day |-> IF D < len THEN D ELSE len]
           after == [year |-> ny, month |-> nm, day |-> IF D < nlen THEN D ELSE nlen]
       IN  /\ SlotOf(ret) = T
           /\ DateOf(ret) = IF MakeDt(this, T) > arg_now THEN this ELSE after
           /\ (D = 28 /\ today.month = 2 /\ today.day < 28) =>
                 DateOf(ret) = [year |-> today.year, month |-> 2, day |-> 28]
           /\ (D = 28 /\ today.month = 2 /\ today.day = 28 /\ fires = 1) =>
                 DateOf(ret) = [year |-> today.year, month |-> 3, day |-> 28]

\* C21 witness: day 31 evaluated at the instant it fell due on January 31
\* gives February 29 (2024 is a leap year).
C21_Witness ==
    /\ called
    /\ fires = 1
    /\ inst.report_schedule_enabled
    /\ inst.report_frequency = "monthly"
    /\ inst.report_day_of_month = 31
    /\ DateOf(arg_now) = [year |-> 2024, month |-> 1, day |-> 31]
    /\ SlotOf(arg_now) = inst.report_time
    /\ DateOf(ret) = [year |-> 2024, month |-> 2, day |-> 29]

\* C22 as stated: the Policy is a pure computation: every field of the
\* instance, next_report_at included, has the same value after the call as
\* before it.
C22_PolicyMutatesNothing ==
    [][ (~called /\ called') => inst' = inst ]_vars

\* C22  As the code has it ("Compute and set the next datetime"): the call
\* sets next_report_at of the instance it is made on to the value it
\* returns, changes no other field of the instance, and writes no row.
C22_PolicySetsOnlyNextReportAt ==
    [][ (~called /\ called') =>
            /\ inst'.next_report_at = ret'
            /\ inst' = [inst EXCEPT !.next_report_at = ret']
            /\ store' = store
            /\ email' = email ]_vars

\* C22 witness: the second call on an instance replaced the next_report_at
\* the first call had set by a later one.
C22_Witness ==
    /\ called
    /\ fires = 1
    /\ ret # None
    /\ inst.next_report_at = ret
    /\ ret > arg_now
    /\ inst.last_report_sent_at = None

\* C23  The runner's state update is atomic per schedule: a step of a pass
\* leaves last_report_sent_at and next_report_at of every row both as they
\* were, or, for the schedule it sent, writes both: last_report_sent_at the
\* pass's now and next_report_at what the Policy gives for the loaded
\* configuration at that now.  No step writes one without the other.
C23_AtomicStateUpdate ==
    [][ (pc = "pass" /\ (idx' # idx \/ pc' # pc)) =>
            \A u \in Users :
                \/ /\ store'[u].last_report_sent_at = store[u].last_report_sent_at
                   /\ store'[u].next_report_at = store[u].next_report_at
                \/ /\ idx < Len(profiles)
                   /\ u = profiles[idx + 1].p.user
                   /\ last' = "sent"
                   /\ store'[u].last_report_sent_at = now
                   /\ store'[u].next_report_at = next_candidate(profiles[idx + 1].p, now) ]_vars

\* C23 witness: the row of the schedule just sent carries the pass's now and
\* the next instant together, where it had carried an earlier pair.
C23_Witness ==
    /\ pc = "pass"
    /\ last = "sent"
    /\ idx >= 1
    /\ profiles[idx].p.last_report_sent_at # None
    /\ profiles[idx].p.last_report_sent_at < now
    /\ store[results[idx].user].last_report_sent_at = now
    /\ store[results[idx].user].next_report_at = next_candidate(profiles[idx].p, now)
    /\ store[results[idx].user].next_report_at > profiles[idx].p.next_report_at

\* C24  A report is delivered in a pass only for a schedule that was loaded
\* as enabled with a next_report_at that is not null and not after the
\* pass's now; the iteration for a loaded schedule whose next_report_at is
\* null or after now adds one to skipped, delivers nothing and writes no
\* row; and no iteration writes the row of another schedule.
C24_OnlyDueSchedulesDelivered ==
    [][ (pc = "pass" /\ idx < Len(profiles) /\ (idx' = idx + 1 \/ pc' # "pass")) =>
            LET p == profiles[idx + 1].p
            IN  /\ p.report_schedule_enabled
                /\ dfor' # dfor =>
                      /\ p.next_report_at # None
                      /\ p.next_report_at <= now
                /\ \A v \in Users \ {p.user} : store'[v] = store[v] /\ dfor'[v] = dfor[v]
                /\ (p.next_report_at = None \/ p.next_report_at > now) =>
                      /\ skipped' = skipped + 1
                      /\ sent' = sent
                      /\ store' = store
                      /\ dfor' = dfor
                      /\ pc' = "pass"
                      /\ results'[idx'].kind = "not_due"
                      /\ ~results'[idx'].invoked
                      /\ ~results'[idx'].delivered ]_vars

\* C24 witness: a pass skipped an enabled schedule without a next_report_at
\* and sent the report of the due schedule after it.
C24_Witness ==
    /\ pc = "pass"
    /\ idx = 2
    /\ profiles[1].p.report_schedule_enabled
    /\ profiles[1].p.next_report_at = None
    /\ results[1].kind = "not_due"
    /\ store[results[1].user] = profiles[1].p
    /\ DueAt(profiles[2].p, now)
    /\ results[2].kind = "sent"
    /\ skipped = 1
    /\ sent = 1

\* C25 as stated: the runner's write after a successful send changes only
\* last_report_sent_at and next_report_at of the persisted row: the enabled
\* flag, frequency, day selectors, time, recipient and range in the store
\* are after the write what they were immediately before it, also when a
\* configuration update for that user committed after the pass had loaded
\* its rows.
C25_RunnerWritesOnlyStateFields ==
    [][ (pc = "pass" /\ idx < Len(profiles) /\ idx' = idx + 1 /\ last' = "sent") =>
            \A u \in Users :
                /\ store'[u].report_schedule_enabled = store[u].report_schedule_enabled
                /\ store'[u].report_frequency = store[u].report_frequency
                /\ store'[u].report_day_of_week = store[u].report_day_of_week
                /\ store'[u].report_day_of_month = store[u].report_day_of_month
                /\ store'[u].report_time = store[u].report_time
                /\ store'[u].report_recipient_email = store[u].report_recipient_email
                /\ store'[u].report_range_days = store[u].report_range_days ]_vars

\* C26  last_report_sent_at is set only on confirmed delivery: a persisted
\* last_report_sent_at is null or the now of a pass, and the only step that
\* changes it is the iteration of a pass, not a dry run, in which
\* send_report_email returned for that user, which sets it to the pass's
\* now; iterations that skip (not due, no recipient), fail or run dry
\* leave it as it was.
C26_LastSentOnlyOnDelivery ==
    /\ [](\A u \in Users :
            store[u].last_report_sent_at # None =>
                /\ store[u].last_report_sent_at <= clock
                /\ dfor[u].n >= 1)
    /\ [][ \A u \in Users :
              store'[u].last_report_sent_at # store[u].last_report_sent_at =>
                  /\ pc = "pass"
                  /\ ~dry_run
                  /\ idx' = idx + 1
                  /\ profiles[idx'].p.user = u
                  /\ results'[idx'].kind = "sent"
                  /\ results'[idx'].delivered
                  /\ dfor'[u] # dfor[u]
                  /\ store'[u].last_report_sent_at = now ]_vars

\* C26 witness: the first schedule of the pass was sent and carries the
\* pass's now, the delivery of the second raised and its last_report_sent_at
\* is still null.
C26_Witness ==
    /\ pc = "pass"
    /\ idx = 2
    /\ results[1].kind = "sent"
    /\ store[results[1].user].last_report_sent_at = now
    /\ results[2].kind = "deliver_raises"
    /\ store[results[2].user].last_report_sent_at = None

\* C27  compute_next_report_at returns None, for every now and whatever the
\* other fields hold (frequency and day selectors valid or not), exactly
\* when the schedule is disabled or has no time of day; for an enabled
\* schedule with a time of day it returns an instant whose time of day is
\* the configured one.
C27_NullExactlyWhenDisabledOrNoTime ==
    called =>
        /\ (ret = None) <=> (~inst.report_schedule_enabled \/ inst.report_time = None)
        /\ (inst.report_schedule_enabled /\ inst.report_time # None) =>
              /\ ret # None
              /\ ret >= WindowStart
              /\ SlotOf(ret) = inst.report_time

\* C27 witness: an enabled schedule with no frequency, day of the month 0
\* and midnight as its time of day got an instant at midnight.
C27_Witness ==
    /\ called
    /\ inst.report_schedule_enabled
    /\ inst.report_frequency = NoStr
    /\ inst.report_day_of_month = 0
    /\ inst.report_time = 0
    /\ ret # None
    /\ SlotOf(ret) = 0
    /\ inst.next_report_at = ret

\* C28 as stated: at the end of every pass, dry run or not, sent plus
\* skipped is the number of enabled schedules the pass loaded.
C28_EveryScheduleCounted ==
    (pc = "pass" /\ idx = Len(profiles)) => sent + skipped = Len(profiles)

\* C28  Pass accounting, as the code has it: a pass loads the enabled rows;
\* at the end of a pass that is not a dry run sent plus skipped is their
\* number, each counted once, as sent or as skipped (not due, no recipient,
\* failed); at the end of a dry run sent is 0 and skipped counts the
\* schedules that are not due or have no recipient, while the due ones the
\* run lists as "would send" are counted as neither.
C28_PassAccounting ==
    /\ [][ (pc # "pass" /\ pc' = "pass") =>
              Len(profiles') = Cardinality({u \in Users : store[u].report_schedule_enabled})
       ]_vars
    /\ []( (pc = "pass" /\ idx = Len(profiles)) =>
            LET listed == Cardinality({i \in 1..idx : results[i].kind = "dry_run"})
                missed == Cardinality({i \in 1..idx :
                              results[i].kind \in {"not_due", "no_recipient"}})
            IN  /\ sent + skipped + listed = Len(profiles)
                /\ ~dry_run => listed = 0 /\ sent + skipped = Len(profiles)
                /\ dry_run => sent = 0 /\ skipped = missed )

\* C28 witness: a dry run over two enabled schedules is at its end, one
\* listed as "would send" and one skipped: sent 0, skipped 1.
C28_Witness ==
    /\ pc = "pass"
    /\ dry_run
    /\ Len(profiles) = 2
    /\ idx = 2
    /\ results[1].kind = "dry_run"
    /\ results[2].kind = "no_recipient"
    /\ sent = 0
    /\ skipped = 1

\* Instant t matches the pattern of configuration c: its time of day is
\* c's, and its day is any day (daily), c's day of the week (weekly) or c's
\* day of the month (monthly).
Matches(c, t) ==
    /\ t % SlotsPerDay = c.report_time
    /\ \/ c.report_frequency = "daily"
       \/ /\ c.report_frequency = "weekly"
          /\ DayNames[(((t \div SlotsPerDay) + 6) % 7) + 1] = c.report_day_of_week
       \/ /\ c.report_frequency = "monthly"
          /\ DateOf(t).day = c.report_day_of_month

\* C29  Minimality: for a valid enabled configuration (daily; weekly with a
\* day of the week; monthly with a day of the month in 1..28) with a time of
\* day and any now, the instant returned is the earliest instant strictly
\* after now that matches the schedule's pattern: it matches, it is after
\* now, and no instant between now and it matches.
C29_EarliestMatchingInstant ==
    ( /\ called
      /\ inst.report_schedule_enabled
      /\ inst.report_time # None
      /\ \/ inst.report_frequency = "daily"
         \/ /\ inst.report_frequency = "weekly"
            /\ inst.report_day_of_week \in {DayNames[i] : i \in 1..7}
         \/ /\ inst.report_frequency = "monthly"
            /\ inst.report_day_of_month \in 1..28 )
    => /\ ret > arg_now
       /\ Matches(inst, ret)
       /\ \A t \in (arg_now + 1) .. (ret - 1) : ~Matches(inst, t)

\* C29 witness: a weekly schedule evaluated on its day of the week before
\* its time of day is due that same day, not a week later.
C29_Witness ==
    /\ called
    /\ inst.report_schedule_enabled
    /\ inst.report_frequency = "weekly"
    /\ inst.report_day_of_week = DayNames[Weekday(DateOf(arg_now)) + 1]
    /\ inst.report_time # None
    /\ SlotOf(arg_now) < inst.report_time
    /\ ret = MakeDt(DateOf(arg_now), inst.report_time)
    /\ ret - arg_now < SlotsPerDay

\* C30  Every runner write strictly advances the schedule: with the
\* configuration unchanged, a pass that writes a row writes a next_report_at
\* strictly after the one it replaces and strictly after the
\* last_report_sent_at written with it, and over any sequence of passes,
\* the clock going forward or back between them, next_report_at of a row
\* never decreases.
C30_RunnerWriteAdvances ==
    /\ [][ \A u \in Users :
              store'[u] # store[u] =>
                  /\ pc = "pass"
                  /\ store[u].next_report_at # None
                  /\ store'[u].next_report_at > store[u].next_report_at
                  /\ store'[u].last_report_sent_at = now
                  /\ store'[u].next_report_at > store'[u].last_report_sent_at ]_vars
    /\ [][ \A u \in Users :
              store'[u].next_report_at >= store[u].next_report_at ]_vars

\* C30 witness: the clock went back after a report was sent; the pass made
\* at the earlier instant skipped the schedule, whose next_report_at is
\* still after the instant of the send.
C30_Witness ==
    /\ pc = "pass"
    /\ idx >= 1
    /\ results[idx].kind = "not_due"
    /\ store[results[idx].user].last_report_sent_at # None
    /\ store[results[idx].user].last_report_sent_at > now
    /\ store[results[idx].user].next_report_at > store[results[idx].user].last_report_sent_at

=============================================================================
